---- MODULE Spec2Model ----
(***************************************************************************)
(* Crawly: the scraping pipeline of Models/ScraperOrchestrator.py.         *)
(*                                                                         *)
(* One Scraper_Orchestrator is constructed and run(context) is called on   *)
(* it.  Every call the orchestrator makes to a collaborator (the logger,   *)
(* the strategy's fetch / should_retry / extract / normalize, sleep) is    *)
(* one step, so that the order of the calls is observable.                 *)
(*                                                                         *)
(* Besides the run of the pipeline the module has the strategies'          *)
(* should_retry and normalize called directly, and the initialize / create *)
(* / shutdown life cycle of Models/DatabaseHandlerFactory.py, each with    *)
(* its own specification over the same variables.                          *)
(*                                                                         *)
(* Times are integers counted in BackoffUnit: a backoff base of 1 is the   *)
(* constructor's default of 0.5 seconds.  Multiplying by a power of two    *)
(* is exact in binary floating point, so nothing is lost.                  *)
(***************************************************************************)
EXTENDS Integers, Sequences, FiniteSets, TLC

\* ------------------------------------------------------------------ bounds
\* largest max_attempts the constructor is given
MaxAttemptsBound == 3
\* largest backoff base, in units of half a second
MaxBackoffBase == 2
\* largest attempt number should_retry is called with directly
MaxRetryAttempt == 4
\* largest number of run(context) calls made on one orchestrator
MaxRuns == 2
\* largest number of normalize calls made on the strategies directly
MaxNormalizeCalls == 2
\* largest number of initialize / create / shutdown calls made on the factory
MaxFactoryCalls == 4

\* --------------------------------------------------------- program values
\* __init__: max_attempts if max_attempts is not None else 3
DefaultMaxAttempts == 3
\* __init__: backoff_base_seconds = 0.5, i.e. one unit of half a second
DefaultBackoffBase == 1
\* Scraper_Exception.__init__: code = 500
DefaultCode == 500
\* Scraper_Strategy.should_retry: attempt < 3
RetryLimit == 3

\* Python's None, and a local name that was never bound
None == "<None>"
Unbound == "<unbound>"

\* a max_attempts above the limit the strategies keep themselves, the one
\* the orchestrator's tests construct it with
TestMaxAttempts == 5

\* max_attempts values below 1: the constructor does not reject them
NonPositiveAttempts == {-1, 0}

\* status codes fetch's Scraper_Exception carries in this model
FetchCodes == {404, 429, 503}
\* payloads fetch returns: text, the empty string, or None
Payloads == {"<html>", "", None}

LoggerKinds == {"ok", "none", "faulty"}
Policies == {"mock", "default", "concrete", "product"}
\* the should_retry implementations of the repository: the default one, the
\* one of Mns_Html_Scraper_Strategy, the one of Product_Api_Scraper_Strategy
RetryPolicies == {"default", "concrete", "product"}
\* codes should_retry is called with directly, around each threshold it tests
RetryCodes == {0, 399, 400, 404, 428, 429, 430, 499, 500, 503}

\* what extract returns: a mapping with fields, or an empty mapping
ExtractedValues == {"{page_title}", "{}"}
\* a call that raised instead of returning
Raises == "<raised>"
\* one call of extract or normalize: its argument and what came back
StageCall(stage, arg, out) == [stage |-> stage, arg |-> arg, out |-> out]

\* the factory's __default_pool when it is None; pools are numbered from 1
NoPool == 0

\* an exception value: its class and (for Scraper_Exception) its code
Exc(type, code, origin) == [type |-> type, code |-> code, origin |-> origin]
NoExc == Exc("None", 0, "none")
Scraper_Exception(code, origin) == Exc("Scraper_Exception", code, origin)
OtherException(origin) == Exc("Exception", 0, origin)

VARIABLES
    max_attempts,   \* self._max_attempts
    backoff_base,   \* self._backoff_base
    logger,         \* self._logger: "ok", "none" (None) or "faulty" (its calls may raise)
    policy,         \* which should_retry the strategy has
    pc,             \* position inside run / _get_data
    attempts,       \* _get_data's attempts parameter
    error,          \* the exception caught in _get_data, then in run
    is_allowed,     \* _get_data's is_allowed
    data,           \* run's local data
    response,       \* _get_data's local response, the payload fetch returned
    reply,          \* the return statement run has reached: kind, stage tag, exception, data
    result,         \* how run ended
    fetchLog,       \* outcome of every fetch call of this run, in order
    retryLog,       \* every should_retry call: attempt passed, answer, the error
                    \* (where it came from, its class, its code), fetch calls so far
    sleeps,         \* every completed sleep(delay), in order: the attempt counter,
                    \* the delay, is_allowed at that moment
    extractCalls,   \* number of extract calls
    normalizeCalls, \* number of normalize calls
    extracted,      \* run's local extracted, what extract returned
    stageLog,       \* every extract / normalize call of this run, in order: the
                    \* stage, the argument passed, what came back
    runs,           \* number of run(context) calls made on the orchestrator
    default_config, \* Database_Handler_Factory.__default_config
    default_logger, \* Database_Handler_Factory.__default_logger
    default_pool,   \* Database_Handler_Factory.__default_pool: None or a pool's number
    pools,          \* number of Database_Connection_Pool objects constructed
    closePoolCalls, \* the pools closePool was called on, in order
    factoryLog,     \* every initialize / create / shutdown call and how it ended
    clock,          \* the system clock datetime.now reads
    entityLog       \* every normalize call made on a strategy directly: the
                    \* strategy, the mapping passed, the clock, what came back

config == <<max_attempts, backoff_base, logger, policy>>
locals == <<attempts, error, is_allowed, response, data, extracted, reply, result>>
history == <<fetchLog, retryLog, sleeps, extractCalls, normalizeCalls, stageLog>>
orchestrator == <<config, pc, locals, history, runs>>
factory == <<default_config, default_logger, default_pool, pools, closePoolCalls, factoryLog>>
strategies == <<clock, entityLog>>
elsewhere == <<factory, strategies>>
vars == <<orchestrator, elsewhere>>

\* ------------------------------------------------------- pure definitions
\* the name attempts inside run: run never assigns it and the module has
\* no global of that name, so reading it raises NameError
run_attempts == Unbound

\* Scraper_Orchestrator.__init__: the value kept in self._max_attempts
InitMaxAttempts(arg) == IF arg.given THEN arg.value ELSE DefaultMaxAttempts

\* Scraper_Orchestrator.__init__: the value kept in self._backoff_base
InitBackoffBase(arg) == IF arg.given THEN arg.value ELSE DefaultBackoffBase

\* variant: the exponent is one less than the attempt counter
DelayFromZero(base, n) == base * (2 ^ (n - 1))

\* variant: the same wait after every failure
DelayConstant(base, n) == base * 2

\* _get_data: delay = self._backoff_base * (2 ** attempts)
Delay(base, n) == base * (2 ^ n)

\* variant: a retry is still allowed when the counter equals the maximum
IsAllowedInclusive(approved, n, max) == approved /\ (n <= max)

\* variant: the strategy's answer is ignored
IsAllowedByCountOnly(approved, n, max) == n < max

\* _get_data: is_allowed = should_retry(error, attempts) and attempts < max
IsAllowed(approved, n, max) == approved /\ (n < max)

\* variant: the default policy never refuses
Default_should_retry_always(exception, attempt) == TRUE

\* variant: the third attempt is still retried
Default_should_retry_inclusive(exception, attempt) == attempt <= RetryLimit

\* Scraper_Strategy.should_retry, the default policy
Default_should_retry(exception, attempt) == attempt < RetryLimit

\* variant: the rate-limit code 429 is treated like any other 4xx
Concrete_should_retry_no_429(exception, attempt) ==
    IF attempt >= RetryLimit THEN FALSE
    ELSE IF exception.type = "Scraper_Exception" /\ exception.code >= 500 THEN TRUE
    ELSE IF exception.type = "Scraper_Exception"
               /\ 400 <= exception.code /\ exception.code < 500 THEN FALSE
    ELSE attempt < RetryLimit

\* Mns_Html_Scraper_Strategy.should_retry
Concrete_should_retry(exception, attempt) ==
    IF attempt >= RetryLimit THEN FALSE
    ELSE IF exception.type = "Scraper_Exception"
               /\ (exception.code >= 500 \/ exception.code = 429) THEN TRUE
    ELSE IF exception.type = "Scraper_Exception"
               /\ 400 <= exception.code /\ exception.code < 500 THEN FALSE
    ELSE attempt < RetryLimit

\* Product_Api_Scraper_Strategy.should_retry (the same text as the other one)
Product_should_retry(exception, attempt) ==
    IF attempt >= RetryLimit THEN FALSE
    ELSE IF exception.type = "Scraper_Exception"
               /\ (exception.code >= 500 \/ exception.code = 429) THEN TRUE
    ELSE IF exception.type = "Scraper_Exception"
               /\ 400 <= exception.code /\ exception.code < 500 THEN FALSE
    ELSE attempt < RetryLimit

\* the answers should_retry can give under a policy; a mocked or
\* overriding strategy may answer anything
ShouldRetryAnswers(pol, exception, attempt) ==
    CASE pol = "default" -> {Default_should_retry(exception, attempt)}
      [] pol = "concrete" -> {Concrete_should_retry(exception, attempt)}
      [] pol = "product" -> {Product_should_retry(exception, attempt)}
      [] OTHER -> BOOLEAN

\* __log_debug / __log_info / __log_error: what one call does.  Without a
\* logger they raise Scraper_Exception; a faulty logger's own call may raise
PrivateLogOutcomes(lg) ==
    CASE lg = "ok" -> {NoExc}
      [] lg = "none" -> {Scraper_Exception(DefaultCode, "logger")}
      [] OTHER -> {NoExc, Scraper_Exception(DefaultCode, "logger"), OtherException("logger")}

\* how a run ended: an exception left run, or run returned an envelope
Pending == [kind |-> "pending", exc |-> NoExc, status |-> None,
            attempts |-> None, data |-> None, error |-> None]
Raised(e) == [Pending EXCEPT !.kind = "raised", !.exc = e]

\* _success_response (with _meta): meta.status, meta.attempts, data, error
\* (meta.strategy and meta.timestamp are left out)
_success_response(d, n) ==
    [Pending EXCEPT !.kind = "envelope", !.status = "success",
                    !.attempts = n, !.data = d, !.error = None]

\* _error_response (with _meta): the error payload is None when error is None,
\* else it is tagged with code; data is None
_error_response(code, e, n) ==
    [Pending EXCEPT !.kind = "envelope", !.status = "error",
                    !.attempts = n, !.data = None,
                    !.error = IF e = NoExc THEN None ELSE code]

\* the return statement run has reached
NoResponse == [kind |-> "none", code |-> None, error |-> NoExc, data |-> None]
ErrorResponse(code, e) == [kind |-> "error", code |-> code, error |-> e, data |-> None]
SuccessResponse(d) == [kind |-> "success", code |-> None, error |-> NoExc, data |-> d]

\* the arguments the constructor is given
MaxAttemptsArgs ==
    {[given |-> FALSE, value |-> 0]}
        \cup {[given |-> TRUE, value |-> n] :
                  n \in NonPositiveAttempts \cup (1..MaxAttemptsBound) \cup {TestMaxAttempts}}
BackoffArgs ==
    {[given |-> FALSE, value |-> 0]}
        \cup {[given |-> TRUE, value |-> b] : b \in 1..MaxBackoffBase}

\* ------------------------------------------------------------------ state
\* no run has been started: run's locals are unbound and nothing was called
NothingRun ==
    /\ error = NoExc
    /\ is_allowed = FALSE
    /\ response = Unbound
    /\ data = Unbound
    /\ extracted = Unbound
    /\ reply = NoResponse
    /\ result = Pending
    /\ fetchLog = <<>>
    /\ retryLog = <<>>
    /\ sleeps = <<>>
    /\ extractCalls = 0
    /\ normalizeCalls = 0
    /\ stageLog = <<>>
    /\ runs = 0

\* the factory's class attributes as the class body leaves them, and no
\* strategy's normalize called yet
ElsewhereIdle ==
    /\ default_config = None
    /\ default_logger = None
    /\ default_pool = NoPool
    /\ pools = 0
    /\ closePoolCalls = <<>>
    /\ factoryLog = <<>>
    /\ clock = 0
    /\ entityLog = <<>>

Init ==
    /\ \E arg \in MaxAttemptsArgs : max_attempts = InitMaxAttempts(arg)
    /\ \E arg \in BackoffArgs : backoff_base = InitBackoffBase(arg)
    /\ logger \in LoggerKinds
    /\ policy \in Policies
    \* a policy that answers at will is run with budgets up to MaxAttemptsBound
    /\ (policy = "mock" => max_attempts <= MaxAttemptsBound)
    /\ pc = "idle"
    /\ attempts = 0
    /\ NothingRun
    /\ ElsewhereIdle

\* an exception leaves run
Escape(e) ==
    /\ pc' = "done"
    /\ result' = Raised(e)

\* a Scraper_Exception leaves _get_data: run's except clause swallows it and
\* data stays unbound
GetDataRaises(e) ==
    /\ pc' = "check"
    /\ error' = e

\* run(context) is called: data = self._get_data(context), attempts = 0
Run ==
    /\ pc = "idle"
    /\ pc' = "log_debug"
    /\ attempts' = 0
    /\ runs' = runs + 1
    /\ UNCHANGED <<config, elsewhere, error, is_allowed, response, data, extracted, reply, result, history>>

\* _get_data, try block: self.__log_debug(...)
LogDebug ==
    /\ pc = "log_debug"
    /\ \E o \in PrivateLogOutcomes(logger) :
          CASE o = NoExc ->
                  /\ pc' = "fetch"
                  /\ UNCHANGED <<error, result>>
            [] o.type = "Scraper_Exception" ->
                  /\ pc' = "log_error"
                  /\ error' = o
                  /\ UNCHANGED result
            [] OTHER ->
                  /\ Escape(o)
                  /\ UNCHANGED error
    /\ UNCHANGED <<config, runs, elsewhere, attempts, is_allowed, response, data, extracted, reply, history>>

\* _get_data, try block: response = self._strategy.fetch(context)
Fetch ==
    /\ pc = "fetch"
    /\ \/ \E p \in Payloads :
            /\ fetchLog' = Append(fetchLog, [kind |-> "returned", payload |-> p, code |-> 0])
            /\ response' = p
            /\ pc' = "log_info"
            /\ UNCHANGED <<error, result>>
       \/ \E c \in FetchCodes :
            /\ fetchLog' = Append(fetchLog, [kind |-> "scraper", payload |-> None, code |-> c])
            /\ error' = Scraper_Exception(c, "fetch")
            /\ pc' = "log_error"
            /\ UNCHANGED <<response, result>>
       \/ /\ fetchLog' = Append(fetchLog, [kind |-> "other", payload |-> None, code |-> 0])
          /\ Escape(OtherException("fetch"))
          /\ UNCHANGED <<response, error>>
    /\ UNCHANGED <<config, runs, elsewhere, attempts, is_allowed, data, extracted, reply,
                   retryLog, sleeps, extractCalls, normalizeCalls, stageLog>>

\* _get_data, try block: self.__log_info(...); return response.  run then
\* binds data to the value returned
LogInfo ==
    /\ pc = "log_info"
    /\ \E o \in PrivateLogOutcomes(logger) :
          CASE o = NoExc ->
                  /\ pc' = "check"
                  /\ data' = response
                  /\ UNCHANGED <<error, result>>
            [] o.type = "Scraper_Exception" ->
                  /\ pc' = "log_error"
                  /\ error' = o
                  /\ UNCHANGED <<data, result>>
            [] OTHER ->
                  /\ Escape(o)
                  /\ UNCHANGED <<data, error>>
    /\ UNCHANGED <<config, runs, elsewhere, attempts, is_allowed, response, extracted, reply, history>>

\* variant: the counter is incremented twice for one failure
LogErrorCountingTwice ==
    /\ pc = "log_error"
    /\ attempts' = attempts + 2
    /\ \E o \in PrivateLogOutcomes(logger) :
          CASE o = NoExc ->
                  /\ pc' = "should_retry"
                  /\ UNCHANGED <<error, result>>
            [] o.type = "Scraper_Exception" ->
                  /\ GetDataRaises(o)
                  /\ UNCHANGED result
            [] OTHER ->
                  /\ Escape(o)
                  /\ UNCHANGED error
    /\ UNCHANGED <<config, runs, elsewhere, is_allowed, response, data, extracted, reply, history>>

\* _get_data, except block: attempts += 1; self.__log_error(...).  An
\* exception raised here leaves _get_data
LogError ==
    /\ pc = "log_error"
    /\ attempts' = attempts + 1
    /\ \E o \in PrivateLogOutcomes(logger) :
          CASE o = NoExc ->
                  /\ pc' = "should_retry"
                  /\ UNCHANGED <<error, result>>
            [] o.type = "Scraper_Exception" ->
                  /\ GetDataRaises(o)
                  /\ UNCHANGED result
            [] OTHER ->
                  /\ Escape(o)
                  /\ UNCHANGED error
    /\ UNCHANGED <<config, runs, elsewhere, is_allowed, response, data, extracted, reply, history>>

\* variant: the counter is tested first, so should_retry is not called once
\* the counter has reached the maximum
ShouldRetryCountFirst ==
    /\ pc = "should_retry"
    /\ IF attempts < max_attempts
         THEN \E approved \in ShouldRetryAnswers(policy, error, attempts) :
                 /\ retryLog' = Append(retryLog, [attempt |-> attempts, answer |-> approved,
                                                  origin |-> error.origin,
                                                  type |-> error.type,
                                                  code |-> error.code,
                                                  fetches |-> Len(fetchLog)])
                 /\ is_allowed' = approved
         ELSE /\ is_allowed' = FALSE
              /\ UNCHANGED retryLog
    /\ pc' = "sleep"
    /\ UNCHANGED <<config, runs, elsewhere, attempts, error, response, data, extracted, reply, result,
                   fetchLog, sleeps, extractCalls, normalizeCalls, stageLog>>

\* _get_data, except block: is_allowed = should_retry(error, attempts) and
\* (attempts < self._max_attempts); should_retry is evaluated first
ShouldRetry ==
    /\ pc = "should_retry"
    /\ \E approved \in ShouldRetryAnswers(policy, error, attempts) :
          /\ retryLog' = Append(retryLog, [attempt |-> attempts, answer |-> approved,
                                           origin |-> error.origin,
                                           type |-> error.type,
                                           code |-> error.code,
                                           fetches |-> Len(fetchLog)])
          /\ is_allowed' = IsAllowed(approved, attempts, max_attempts)
    /\ pc' = "sleep"
    /\ UNCHANGED <<config, runs, elsewhere, attempts, error, response, data, extracted, reply, result,
                   fetchLog, sleeps, extractCalls, normalizeCalls, stageLog>>

\* variant: the wait after the first failure is left out
SleepSkippingFirst ==
    /\ pc = "sleep"
    /\ sleeps' = IF attempts = 1
                   THEN sleeps
                   ELSE Append(sleeps, [attempt |-> attempts,
                                        delay |-> Delay(backoff_base, attempts),
                                        allowed |-> is_allowed])
    /\ pc' = "decide"
    /\ UNCHANGED <<config, runs, elsewhere, locals, fetchLog, retryLog, extractCalls, normalizeCalls, stageLog>>

\* _get_data, except block: delay = ...; sleep(delay)
Sleep ==
    /\ pc = "sleep"
    /\ sleeps' = Append(sleeps, [attempt |-> attempts, delay |-> Delay(backoff_base, attempts),
                                 allowed |-> is_allowed])
    /\ pc' = "decide"
    /\ UNCHANGED <<config, runs, elsewhere, locals, fetchLog, retryLog, extractCalls, normalizeCalls, stageLog>>

\* _get_data, except block: if not is_allowed: raise Scraper_Exception(...)
\* (with the default code); else return self._get_data(context, attempts)
Decide ==
    /\ pc = "decide"
    /\ IF is_allowed
         THEN /\ pc' = "log_debug"
              /\ UNCHANGED error
         ELSE GetDataRaises(Scraper_Exception(DefaultCode, "orchestrator"))
    /\ UNCHANGED <<config, runs, elsewhere, attempts, is_allowed, response, data, extracted, reply, result, history>>

\* run: if data is None: return self._error_response("FETCH_ERROR", last_error,
\* attempts) with last_error = None.  Reading data when _get_data raised is an
\* UnboundLocalError
Check ==
    /\ pc = "check"
    /\ CASE data = Unbound ->
              /\ Escape(Exc("UnboundLocalError", 0, "run"))
              /\ UNCHANGED reply
         [] data = None ->
              /\ pc' = "respond"
              /\ reply' = ErrorResponse("FETCH_ERROR", NoExc)
              /\ UNCHANGED result
         [] OTHER ->
              /\ pc' = "extract"
              /\ UNCHANGED <<reply, result>>
    /\ UNCHANGED <<config, runs, elsewhere, attempts, error, is_allowed, response, data, extracted, history>>

\* variant: a failure of extract is handled like a failure of fetch
ExtractInsideRetry ==
    /\ pc = "extract"
    /\ extractCalls' = extractCalls + 1
    /\ \/ \E fields \in ExtractedValues :
            /\ extracted' = fields
            /\ stageLog' = Append(stageLog, StageCall("extract", data, fields))
            /\ pc' = "normalize"
            /\ UNCHANGED <<error, reply>>
       \/ \E e \in {Scraper_Exception(DefaultCode, "extract"), OtherException("extract")} :
            /\ stageLog' = Append(stageLog, StageCall("extract", data, Raises))
            /\ pc' = "log_error"
            /\ error' = e
            /\ reply' = ErrorResponse("EXTRACT_ERROR", e)
            /\ UNCHANGED extracted
    /\ UNCHANGED <<config, runs, elsewhere, attempts, is_allowed, response, data, result,
                   fetchLog, retryLog, sleeps, normalizeCalls>>

\* run: extracted = self._strategy.extract(data); any Exception is caught and
\* run goes to return self._error_response("EXTRACT_ERROR", error, attempts).
\* _log_debug and _log_error swallow whatever the logger does
Extract ==
    /\ pc = "extract"
    /\ extractCalls' = extractCalls + 1
    /\ \/ \E fields \in ExtractedValues :
            /\ extracted' = fields
            /\ stageLog' = Append(stageLog, StageCall("extract", data, fields))
            /\ pc' = "normalize"
            /\ UNCHANGED <<error, reply>>
       \/ \E e \in {Scraper_Exception(DefaultCode, "extract"), OtherException("extract")} :
            /\ stageLog' = Append(stageLog, StageCall("extract", data, Raises))
            /\ pc' = "respond"
            /\ error' = e
            /\ reply' = ErrorResponse("EXTRACT_ERROR", e)
            /\ UNCHANGED extracted
    /\ UNCHANGED <<config, runs, elsewhere, attempts, is_allowed, response, data, result,
                   fetchLog, retryLog, sleeps, normalizeCalls>>

\* variant: normalize is given the fetched payload instead of extract's result
NormalizeFromPayload ==
    /\ pc = "normalize"
    /\ normalizeCalls' = normalizeCalls + 1
    /\ pc' = "respond"
    /\ \/ /\ stageLog' = Append(stageLog, StageCall("normalize", data, "normalized"))
          /\ reply' = SuccessResponse("normalized")
          /\ UNCHANGED error
       \/ \E e \in {Scraper_Exception(DefaultCode, "normalize"), OtherException("normalize")} :
            /\ stageLog' = Append(stageLog, StageCall("normalize", data, Raises))
            /\ error' = e
            /\ reply' = ErrorResponse("NORMALIZE_ERROR", e)
    /\ UNCHANGED <<config, runs, elsewhere, attempts, is_allowed, response, data, extracted, result,
                   fetchLog, retryLog, sleeps, extractCalls>>

\* run: normalized = self._strategy.normalize(extracted); any Exception is
\* caught and run goes to return self._error_response("NORMALIZE_ERROR", ...);
\* else to return self._success_response(normalized, attempts)
Normalize ==
    /\ pc = "normalize"
    /\ normalizeCalls' = normalizeCalls + 1
    /\ pc' = "respond"
    /\ \/ /\ stageLog' = Append(stageLog, StageCall("normalize", extracted, "normalized"))
          /\ reply' = SuccessResponse("normalized")
          /\ UNCHANGED error
       \/ \E e \in {Scraper_Exception(DefaultCode, "normalize"), OtherException("normalize")} :
            /\ stageLog' = Append(stageLog, StageCall("normalize", extracted, Raises))
            /\ error' = e
            /\ reply' = ErrorResponse("NORMALIZE_ERROR", e)
    /\ UNCHANGED <<config, runs, elsewhere, attempts, is_allowed, response, data, extracted, result,
                   fetchLog, retryLog, sleeps, extractCalls>>

\* run: the return statement evaluates its arguments, attempts among them,
\* before _success_response / _error_response is called
Respond ==
    /\ pc = "respond"
    /\ pc' = "done"
    /\ result' = IF run_attempts = Unbound
                   THEN Raised(Exc("NameError", 0, "run"))
                   ELSE IF reply.kind = "success"
                          THEN _success_response(reply.data, run_attempts)
                          ELSE _error_response(reply.code, reply.error, run_attempts)
    /\ UNCHANGED <<config, runs, elsewhere, attempts, error, is_allowed, response, data, extracted, reply, history>>

Next ==
    \/ Run
    \/ LogDebug
    \/ Fetch
    \/ LogInfo
    \/ LogError
    \/ ShouldRetry
    \/ Sleep
    \/ Decide
    \/ Check
    \/ Extract
    \/ Normalize
    \/ Respond

Spec == Init /\ [][Next]_vars

\* run is sequential code and every call it makes returns or raises: a step
\* that can be taken is taken
FairSpec == Spec /\ WF_vars(Next)

\* ------------------------------------------------ run called more than once
\* variant: the attempt counter is kept on the orchestrator between two runs
RunAgainKeepingCounter ==
    /\ pc = "done"
    /\ runs < MaxRuns
    /\ pc' = "log_debug"
    /\ runs' = runs + 1
    /\ error' = NoExc
    /\ is_allowed' = FALSE
    /\ response' = Unbound
    /\ data' = Unbound
    /\ extracted' = Unbound
    /\ reply' = NoResponse
    /\ result' = Pending
    /\ fetchLog' = <<>>
    /\ retryLog' = <<>>
    /\ sleeps' = <<>>
    /\ extractCalls' = 0
    /\ normalizeCalls' = 0
    /\ stageLog' = <<>>
    /\ UNCHANGED <<config, elsewhere, attempts>>

\* run(context) is called again on the same orchestrator after the previous
\* call ended: the call has new locals, _get_data is entered with attempts = 0,
\* and the logs of the calls of this run start empty.  self._strategy,
\* self._logger, self._max_attempts and self._backoff_base are only read
RunAgain ==
    /\ pc = "done"
    /\ runs < MaxRuns
    /\ pc' = "log_debug"
    /\ runs' = runs + 1
    /\ attempts' = 0
    /\ error' = NoExc
    /\ is_allowed' = FALSE
    /\ response' = Unbound
    /\ data' = Unbound
    /\ extracted' = Unbound
    /\ reply' = NoResponse
    /\ result' = Pending
    /\ fetchLog' = <<>>
    /\ retryLog' = <<>>
    /\ sleeps' = <<>>
    /\ extractCalls' = 0
    /\ normalizeCalls' = 0
    /\ stageLog' = <<>>
    /\ UNCHANGED <<config, elsewhere>>

NextRerun ==
    \/ Next
    \/ RunAgain

SpecRerun == Init /\ [][NextRerun]_vars

\* ------------------------------------------- normalize called directly
\* Python values found in an extracted mapping: a str, an int, or no such key
PyStr(text) == [t |-> "str", s |-> text, n |-> 0]
PyInt(number) == [t |-> "int", s |-> "", n |-> number]
Absent == [t |-> "absent", s |-> "", n |-> 0]

\* str(value)
Str(value) == IF value.t = "int" THEN ToString(value.n) ELSE value.s
\* mapping.get(key, default)
Get(value, default) == IF value.t = "absent" THEN default ELSE value
\* bool(value): the empty string and 0 are false
Truthy(value) == (value.t = "str" /\ value.s # "") \/ (value.t = "int" /\ value.n # 0)
\* sha256(text.encode()).hexdigest()[:16]: a digest, fixed by the text alone
Sha256Prefix(text) == "sha256:" \o text

\* the extracted mappings normalize is called with
PageTitles == {Absent, PyStr(""), PyStr("A"), PyStr("AB")}
MainContents == {Absent, PyStr(""), PyStr("B")}
Descriptions == {PyStr("d1"), PyStr("d2")}
ProductIds == {Absent, PyStr(""), PyStr("p1"), PyStr("7"), PyInt(7), PyInt(0)}
Extracted(title, content, description, id) ==
    [page_title |-> title, main_content |-> content,
     description |-> description, product_id |-> id]
MnsExtracted ==
    {Extracted(t, c, d, Absent) : t \in PageTitles, c \in MainContents, d \in Descriptions}
ProductExtracted ==
    {Extracted(Absent, Absent, d, i) : d \in Descriptions, i \in ProductIds}

\* what a normalize call gave: a normalized record, or a Scraper_Exception
Normalized(type, id, now, description) ==
    [raised |-> FALSE, entity_type |-> type, entity_id |-> id,
     timestamp |-> now, description |-> description]
NormalizeRaised(now) ==
    [raised |-> TRUE, entity_type |-> Raises, entity_id |-> Raises,
     timestamp |-> now, description |-> Raises]

\* Mns_Html_Scraper_Strategy._generate_entity_id
Mns_generate_entity_id(mapping) ==
    Sha256Prefix(Str(Get(mapping.page_title, PyStr("")))
                     \o Str(Get(mapping.main_content, PyStr(""))))

\* variant: the time of the call is hashed into the id
Mns_normalize_timestamped(mapping, now) ==
    Normalized("mns_page",
               Sha256Prefix(Str(Get(mapping.page_title, PyStr("")))
                                \o Str(Get(mapping.main_content, PyStr("")))
                                \o ToString(now)),
               now,
               Str(Get(mapping.description, PyStr(""))))

\* Mns_Html_Scraper_Strategy.normalize, called on a mapping
Mns_normalize(mapping, now) ==
    Normalized("mns_page",
               Mns_generate_entity_id(mapping),
               now,
               Str(Get(mapping.description, PyStr(""))))

\* Product_Api_Scraper_Strategy.normalize, called on a mapping
Product_normalize(mapping, now) ==
    IF mapping.product_id.t = "absent" \/ ~Truthy(mapping.product_id)
      THEN NormalizeRaised(now)
      ELSE Normalized("product",
                      Str(mapping.product_id),
                      now,
                      Str(Get(mapping.description, PyStr(""))))

\* the orchestrator is constructed with its defaults and is not run
OrchestratorIdle ==
    /\ max_attempts = DefaultMaxAttempts
    /\ backoff_base = DefaultBackoffBase
    /\ logger = "ok"
    /\ policy = "default"
    /\ pc = "idle"
    /\ attempts = 0
    /\ NothingRun

InitNormalize ==
    /\ OrchestratorIdle
    /\ ElsewhereIdle

\* strategy.normalize(extracted) is called on the hypertext strategy;
\* datetime.now is read and time goes on
MnsNormalize ==
    /\ Len(entityLog) < MaxNormalizeCalls
    /\ \E e \in MnsExtracted :
          entityLog' = Append(entityLog, [strategy |-> "mns", extracted |-> e,
                                          out |-> Mns_normalize(e, clock)])
    /\ clock' = clock + 1
    /\ UNCHANGED <<orchestrator, factory>>

\* strategy.normalize(extracted) is called on the product strategy
ProductNormalize ==
    /\ Len(entityLog) < MaxNormalizeCalls
    /\ \E e \in ProductExtracted :
          entityLog' = Append(entityLog, [strategy |-> "product", extracted |-> e,
                                          out |-> Product_normalize(e, clock)])
    /\ clock' = clock + 1
    /\ UNCHANGED <<orchestrator, factory>>

NextNormalize ==
    \/ MnsNormalize
    \/ ProductNormalize

SpecNormalize == InitNormalize /\ [][NextNormalize]_vars

\* ------------------------------------------------ Database_Handler_Factory
\* one call on the factory and how it ended
FactoryCall(call, outcome) == [call |-> call, outcome |-> outcome]
\* how Database_Handler(config=..., logger=..., sanitizer=..., ...) ends: a
\* handler when the class accepts these arguments (the tests patch it), a
\* TypeError from the repository's __init__(self, logger, sanitizer)
HandlerOutcomes == {"handler", "TypeError"}

InitFactory ==
    /\ OrchestratorIdle
    /\ ElsewhereIdle

\* Database_Handler_Factory.initialize(config, logger, create_pool): the
\* configuration comes from the argument or from the environment (which
\* raises ValueError when a variable is missing), then the logger is set,
\* then, if asked for, the shared pool is built, which raises
\* Relational_Database_Error when the server cannot be reached
Initialize ==
    /\ Len(factoryLog) < MaxFactoryCalls
    /\ \E config_given \in BOOLEAN, logger_given \in BOOLEAN, create_pool \in BOOLEAN,
          environment_ok \in BOOLEAN, server_ok \in BOOLEAN :
          IF ~config_given /\ ~environment_ok
            THEN /\ factoryLog' = Append(factoryLog, FactoryCall("initialize", "ValueError"))
                 /\ UNCHANGED <<default_config, default_logger, default_pool, pools>>
            ELSE /\ default_config' = IF config_given THEN "given" ELSE "environment"
                 /\ default_logger' = IF logger_given THEN "given" ELSE "created"
                 /\ IF ~create_pool
                      THEN /\ factoryLog' = Append(factoryLog, FactoryCall("initialize", "returned"))
                           /\ UNCHANGED <<default_pool, pools>>
                      ELSE IF ~server_ok
                             THEN /\ factoryLog' = Append(factoryLog,
                                                          FactoryCall("initialize", "DatabaseError"))
                                  /\ UNCHANGED <<default_pool, pools>>
                             ELSE /\ pools' = pools + 1
                                  /\ default_pool' = pools + 1
                                  /\ factoryLog' = Append(factoryLog,
                                                          FactoryCall("initialize", "returned"))
    /\ UNCHANGED <<orchestrator, strategies, closePoolCalls>>

\* Database_Handler_Factory.create(...): RuntimeError when __default_config
\* is None, else a Database_Handler is constructed
Create ==
    /\ Len(factoryLog) < MaxFactoryCalls
    /\ IF default_config = None
         THEN factoryLog' = Append(factoryLog, FactoryCall("create", "RuntimeError"))
         ELSE \E outcome \in HandlerOutcomes :
                 factoryLog' = Append(factoryLog, FactoryCall("create", outcome))
    /\ UNCHANGED <<orchestrator, strategies, default_config, default_logger, default_pool,
                   pools, closePoolCalls>>

\* Database_Handler_Factory.shutdown(): closePool on the shared pool if there
\* is one, and the pool is cleared; configuration and logger stay
Shutdown ==
    /\ Len(factoryLog) < MaxFactoryCalls
    /\ IF default_pool # NoPool
         THEN /\ closePoolCalls' = Append(closePoolCalls, default_pool)
              /\ default_pool' = NoPool
         ELSE UNCHANGED <<closePoolCalls, default_pool>>
    /\ factoryLog' = Append(factoryLog, FactoryCall("shutdown", "returned"))
    /\ UNCHANGED <<orchestrator, strategies, default_config, default_logger, pools>>

NextFactory ==
    \/ Initialize
    \/ Create
    \/ Shutdown

SpecFactory == InitFactory /\ [][NextFactory]_vars

\* ------------------------------------------- should_retry called directly
\* the errors should_retry is called with directly
RetryErrors ==
    {Scraper_Exception(c, "caller") : c \in RetryCodes} \cup {OtherException("caller")}

\* a strategy is constructed and should_retry(exception, attempt) is about to
\* be called on it with some exception and some attempt number
InitRetry ==
    /\ max_attempts = DefaultMaxAttempts
    /\ backoff_base = DefaultBackoffBase
    /\ logger = "ok"
    /\ policy \in RetryPolicies
    /\ pc = "policy"
    /\ attempts \in 0..MaxRetryAttempt
    /\ error \in RetryErrors
    /\ is_allowed = FALSE
    /\ response = Unbound
    /\ data = Unbound
    /\ extracted = Unbound
    /\ reply = NoResponse
    /\ result = Pending
    /\ fetchLog = <<>>
    /\ retryLog = <<>>
    /\ sleeps = <<>>
    /\ extractCalls = 0
    /\ normalizeCalls = 0
    /\ stageLog = <<>>
    /\ runs = 0
    /\ ElsewhereIdle

\* strategy.should_retry(exception, attempt) is called and returns
CallShouldRetry ==
    /\ pc = "policy"
    /\ \E approved \in ShouldRetryAnswers(policy, error, attempts) :
          retryLog' = Append(retryLog, [attempt |-> attempts, answer |-> approved,
                                        origin |-> error.origin,
                                        type |-> error.type,
                                        code |-> error.code,
                                        fetches |-> 0])
    /\ pc' = "policy_done"
    /\ UNCHANGED <<config, runs, elsewhere, locals, fetchLog, sleeps, extractCalls, normalizeCalls, stageLog>>

NextRetry == CallShouldRetry

SpecRetry == InitRetry /\ [][NextRetry]_vars

\* --------------------------------------------------------------- typing
TypeOK ==
    /\ max_attempts \in NonPositiveAttempts \cup (1..(MaxAttemptsBound + TestMaxAttempts))
    /\ backoff_base \in 1..MaxBackoffBase
    /\ logger \in LoggerKinds
    /\ policy \in Policies
    /\ attempts \in Nat
    /\ is_allowed \in BOOLEAN
    /\ extractCalls \in Nat
    /\ normalizeCalls \in Nat
    /\ runs \in 0..MaxRuns
    /\ default_pool \in NoPool..pools
    /\ Len(closePoolCalls) <= pools
    /\ Len(factoryLog) <= MaxFactoryCalls
    /\ clock = Len(entityLog)
    /\ Len(entityLog) <= MaxNormalizeCalls

\* ------------------------------------------------------- shared notions
Done == pc = "done"
ReturnedEnvelope == result.kind = "envelope"
ReturnedError == ReturnedEnvelope /\ result.status = "error"
ReturnedSuccess == ReturnedEnvelope /\ result.status = "success"
FetchCalls == Len(fetchLog)
\* every fetch call so far raised a Scraper_Exception
EveryFetchFailed == \A i \in DOMAIN fetchLog : fetchLog[i].kind = "scraper"
\* should_retry approved every time it was asked
EveryRetryApproved == \A i \in DOMAIN retryLog : retryLog[i].answer
\* the first fetch call raised a Scraper_Exception and should_retry refused it
FirstFailureRefused ==
    /\ FetchCalls >= 1
    /\ fetchLog[1].kind = "scraper"
    /\ \E i \in DOMAIN retryLog :
          /\ retryLog[i].origin = "fetch"
          /\ retryLog[i].fetches = 1
          /\ ~retryLog[i].answer
\* the last fetch call returned a payload and the ones before it all failed
FailedThenFetched ==
    /\ FetchCalls >= 2
    /\ fetchLog[FetchCalls].kind = "returned"
    /\ fetchLog[FetchCalls].payload = "<html>"
    /\ \A i \in 1..(FetchCalls - 1) : fetchLog[i].kind = "scraper"

\* ------------------------------------------------------------------ C1
\* C1 (retry ceiling): with a working logger and max_attempts = N >= 1, when
\* every fetch call fails with a Scraper_Exception and should_retry approves
\* every time, a finished run has called fetch exactly N times and has
\* returned an error envelope.
C1_RetryCeiling ==
    (Done /\ logger = "ok" /\ max_attempts >= 1 /\ EveryFetchFailed /\ EveryRetryApproved)
        => (FetchCalls = max_attempts /\ ReturnedError)

\* ------------------------------------------------------------------ C2
\* C2 (non-retryable short-circuit): when the first fetch call fails and
\* should_retry refuses that failure, fetch is called exactly once in the run,
\* whatever max_attempts is.
C2_ShortCircuit == FirstFailureRefused => FetchCalls = 1

C2_Witness ==
    Done /\ FirstFailureRefused /\ max_attempts >= 2 /\ FetchCalls = 1

\* ------------------------------------------------------------------ C3
\* C3: run always returns an envelope; whatever fetch (a payload, a
\* Scraper_Exception, an exhausted budget), extract and normalize do, no
\* exception leaves run.
C3_AlwaysEnvelope ==
    (Done /\ logger = "ok" /\ \A i \in DOMAIN fetchLog : fetchLog[i].kind # "other")
        => ReturnedEnvelope

\* ------------------------------------------------------------------ C4
\* C4 (envelope invariant): what a finished run hands back is an envelope in
\* which exactly one of data and error is not None.
C4_EnvelopeInvariant ==
    (Done /\ logger = "ok" /\ \A i \in DOMAIN fetchLog : fetchLog[i].kind # "other")
        => (ReturnedEnvelope /\ ((result.data = None) # (result.error = None)))

C6_EmptyPayloadIsFetchFailure ==
    (/\ logger = "ok"
     /\ FetchCalls >= 1
     /\ fetchLog[FetchCalls].kind = "returned"
     /\ fetchLog[FetchCalls].payload \in {None, ""}
     /\ pc \notin {"log_info"})
        => (/\ extractCalls = 0
            /\ normalizeCalls = 0
            /\ (Done => ~ReturnedSuccess))

\* ------------------------------------------------------------------ C7
\* C7: when fetch fails f >= 1 times, should_retry approving each time, and
\* then returns a payload, and extract and normalize succeed, the finished run
\* has called fetch f + 1 times, has slept f times and has returned success.
C7_RetryThenSuccess ==
    (Done /\ logger = "ok" /\ FailedThenFetched /\ EveryRetryApproved
          /\ reply.kind = "success")
        => (/\ Len(retryLog) = FetchCalls - 1
            /\ Len(sleeps) = FetchCalls - 1
            /\ ReturnedSuccess)

\* ------------------------------------------------------------------ C8
\* C8: after a failure of fetch a sleep is performed only when the retry is
\* permitted (should_retry approved and the attempt counter is below
\* max_attempts).
C8_SleepOnlyWhenAllowed ==
    [][(sleeps' # sleeps /\ logger = "ok" /\ error.origin = "fetch") => is_allowed]_vars

\* ------------------------------------------------------------------ C9
\* C9 as stated: the wait after the failure that brings the attempt counter
\* to c is backoff_base * 2^(c - 1).
C9_BackoffFromBase ==
    \A i \in DOMAIN sleeps :
        logger = "ok" =>
        sleeps[i].delay = backoff_base * (2 ^ (sleeps[i].attempt - 1))

\* C9 (amended): the wait after the failure that brings the attempt counter
\* to c (c >= 1) is backoff_base * 2^c: 2 * backoff_base after the first
\* failure, 4 * backoff_base after the second.
C9_BackoffValue ==
    \A i \in DOMAIN sleeps :
        /\ sleeps[i].attempt >= 1
        /\ sleeps[i].delay = backoff_base * (2 ^ sleeps[i].attempt)
        /\ (sleeps[i].attempt = 1 => sleeps[i].delay = 2 * backoff_base)
        /\ (sleeps[i].attempt = 2 => sleeps[i].delay = 4 * backoff_base)

C9_Witness ==
    /\ pc = "fetch"
    /\ Len(sleeps) = 2
    /\ sleeps[1].attempt = 1
    /\ sleeps[2].attempt = 2

\* ------------------------------------------------------------------ C10
\* C10 (backoff monotonicity): the k-th wait of a run, the one before fetch
\* attempt k + 1, is backoff_base * 2^k, the waits of a run are strictly
\* increasing, and with a working logger the fetch call about to be made as
\* call k + 1 comes after exactly k waits.
C10_BackoffMonotonic ==
    /\ \A k \in DOMAIN sleeps :
          /\ sleeps[k].delay = backoff_base * (2 ^ k)
          /\ (k > 1 => sleeps[k - 1].delay < sleeps[k].delay)
    /\ ((pc = "fetch" /\ logger = "ok") => Len(sleeps) = FetchCalls)

C10_Witness ==
    /\ pc = "fetch"
    /\ logger = "ok"
    /\ FetchCalls = 2
    /\ Len(sleeps) = 2
    /\ backoff_base = 2
    /\ sleeps[1].delay = 4
    /\ sleeps[2].delay = 8

\* -------------------------------------------------- more shared notions
\* no fetch call raised anything but a Scraper_Exception
OnlyScraperFailures == \A i \in DOMAIN fetchLog : fetchLog[i].kind # "other"
\* the stage at which a finished run failed, None when it did not fail:
\* the return statement it reached, or _get_data having raised
StageThatFailed ==
    IF reply.kind = "error" THEN reply.code
    ELSE IF data = Unbound THEN "FETCH_ERROR"
    ELSE None
\* run returning the mapping d itself, with nothing around it
PlainMapping(d) == [Pending EXCEPT !.kind = "mapping", !.data = d]
\* run returning the empty mapping {}
EmptyMapping == [Pending EXCEPT !.kind = "mapping", !.data = "{}"]

\* ------------------------------------------------------------------ C11
\* C11: a finished run that failed at a stage has returned an error envelope
\* whose error is not None and carries that stage's tag: FETCH_ERROR,
\* EXTRACT_ERROR or NORMALIZE_ERROR.
C11_StageTag ==
    (Done /\ logger = "ok" /\ OnlyScraperFailures /\ StageThatFailed # None)
        => (/\ ReturnedError
            /\ result.error # None
            /\ result.error = StageThatFailed)

\* ------------------------------------------------------------------ C12
\* C12: on the success path (fetch, extract and normalize all returned) the
\* finished run has returned an envelope with status success, error None and
\* data exactly what normalize returned.
C12_SuccessEnvelope ==
    (Done /\ logger = "ok" /\ reply.kind = "success")
        => (/\ ReturnedSuccess
            /\ result.error = None
            /\ result.data = reply.data)

\* ------------------------------------------------------------------ C13
\* C13: a finished run that failed (retry refused, attempts exhausted, fetch
\* returned None, extract raised, normalize raised) has returned the empty
\* mapping {}.
C13_EmptyMappingOnFailure ==
    (Done /\ logger = "ok" /\ OnlyScraperFailures /\ StageThatFailed # None)
        => result = EmptyMapping

\* ------------------------------------------------------------------ C14
\* C14: when the first fetch call returns a payload and extract and normalize
\* return, the finished run has returned exactly normalize's mapping, after one
\* fetch call, one extract call and one normalize call.
C14_ReturnsNormalized ==
    (Done /\ logger = "ok" /\ reply.kind = "success" /\ FetchCalls = 1)
        => (/\ result = PlainMapping(reply.data)
            /\ extractCalls = 1
            /\ normalizeCalls = 1)

\* ------------------------------------------------------------------ C15
\* C15: a missing logger does not change what the pipeline does.  Whatever the
\* strategy does, a run with a working logger calls fetch at least once before
\* it ends; so must, for the call counts to agree, a run without a logger.
C15_MissingLoggerHarmless ==
    (Done /\ logger \in {"ok", "none"}) => FetchCalls >= 1

\* ------------------------------------------------------------------ C16
\* C16: an exception raised by the logger is swallowed at every transition:
\* it is never the error the retry decision is taken on, and never the
\* exception that ends run.
C16_FaultyLoggerHarmless ==
    logger = "faulty" => (error.origin # "logger" /\ result.exc.origin # "logger")

\* ------------------------------------------------------------------ C17
\* C17: the default should_retry answers true exactly when attempt < 3,
\* whatever the error is.
C17_DefaultPolicy ==
    \A i \in DOMAIN retryLog :
        policy = "default" => (retryLog[i].answer <=> retryLog[i].attempt < 3)

C17_Witness ==
    /\ pc = "policy_done"
    /\ policy = "default"
    /\ retryLog[1].type = "Exception"
    /\ retryLog[1].attempt = 3
    /\ ~retryLog[1].answer

\* ------------------------------------------------------------------ C18
\* C18: should_retry of both concrete strategies answers false whenever
\* attempt >= 3; for attempt < 3 it answers true for a code >= 500 or = 429,
\* false for every other code in 400..499, and true for an error that is not
\* a Scraper_Exception.
C18_ConcretePolicy ==
    \A i \in DOMAIN retryLog :
        policy \in {"concrete", "product"} =>
            LET r == retryLog[i] IN
            /\ (r.attempt >= 3 => ~r.answer)
            /\ (r.attempt < 3 /\ r.type = "Scraper_Exception"
                    /\ (r.code >= 500 \/ r.code = 429) => r.answer)
            /\ (r.attempt < 3 /\ r.type = "Scraper_Exception"
                    /\ r.code \in 400..499 /\ r.code # 429 => ~r.answer)
            /\ (r.attempt < 3 /\ r.type # "Scraper_Exception" => r.answer)

C18_Witness ==
    /\ pc = "policy_done"
    /\ policy = "concrete"
    /\ retryLog[1].type = "Scraper_Exception"
    /\ retryLog[1].code = 429
    /\ retryLog[1].attempt = 2
    /\ retryLog[1].answer

\* ------------------------------------------------------------------ C19
\* C19: a finished run has returned an envelope whose attempt count is the
\* number of fetch calls made in the run (1 after an immediate success).
C19_AttemptsReported ==
    (Done /\ logger = "ok" /\ OnlyScraperFailures)
        => (ReturnedEnvelope /\ result.attempts = FetchCalls)

\* ------------------------------------------------------------------ C20
\* C20: every failed fetch call, whatever exception it raised, has gone through
\* the should_retry decision by the time the run is finished, and its exception
\* is not the one that ends run.
C20_AnyFetchFailureObserved ==
    (Done /\ logger = "ok")
        => (/\ \A i \in DOMAIN fetchLog :
                  fetchLog[i].kind \in {"scraper", "other"}
                      => \E j \in DOMAIN retryLog :
                            retryLog[j].origin = "fetch" /\ retryLog[j].fetches = i
            /\ result.exc.origin # "fetch")

\* ------------------------------------------------------------------ C21
\* C21: when every fetch call of a finished run failed with a
\* Scraper_Exception, so that no retry was permitted in the end, the failure
\* that reaches run is the last error fetch raised, unchanged: it comes from
\* fetch and carries the code of the last fetch error.
C21_LastFetchErrorKept ==
    (Done /\ logger = "ok" /\ FetchCalls >= 1 /\ EveryFetchFailed)
        => (/\ error.origin = "fetch"
            /\ error.code = fetchLog[FetchCalls].code)

ExtractIndexes == {i \in DOMAIN stageLog : stageLog[i].stage = "extract"}
NormalizeIndexes == {i \in DOMAIN stageLog : stageLog[i].stage = "normalize"}
\* the fetch calls that returned a payload
ReturnedFetches == {i \in DOMAIN fetchLog : fetchLog[i].kind = "returned"}

FailedFetches == {i \in DOMAIN fetchLog : fetchLog[i].kind = "scraper"}

Min(a, b) == IF a <= b THEN a ELSE b
\* every fetch call so far failed with code 503
EveryFetchUnavailable ==
    \A i \in DOMAIN fetchLog : fetchLog[i].kind = "scraper" /\ fetchLog[i].code = 503

Max(a, b) == IF a >= b THEN a ELSE b
\* _get_data has returned or raised, or run has ended
FetchPhaseOver == pc \in {"check", "extract", "normalize", "respond", "done"}

\* C28 (termination): for every max_attempts, 0 and negative ones included,
\* and whatever fetch and should_retry do, the fetch phase of a run comes to
\* an end; the attempt counter and the number of fetch calls never exceed
\* max(1, max_attempts); the counter changes only by one, when a failure is
\* caught, and with a working logger it is the number of failed fetch calls;
\* no retry is allowed once the counter has reached max_attempts.
C28_FetchPhaseEnds ==
    /\ <>FetchPhaseOver
    /\ [](/\ attempts <= Max(1, max_attempts)
          /\ FetchCalls <= Max(1, max_attempts)
          /\ (pc = "decide" /\ attempts >= max_attempts => ~is_allowed)
          /\ (logger = "ok" =>
                attempts = Cardinality(FailedFetches) - (IF pc = "log_error" THEN 1 ELSE 0)))
    /\ [][attempts' # attempts => (pc = "log_error" /\ attempts' = attempts + 1)]_vars

C28_Witness ==
    /\ Done
    /\ logger = "ok"
    /\ max_attempts <= 0
    /\ FetchCalls = 1
    /\ EveryFetchFailed
    /\ Len(retryLog) = 1
    /\ retryLog[1].answer
    /\ attempts = 1

\* ------------------------------------------------------------------ C25
\* C25 (no state crosses invocations): in every run made on an orchestrator,
\* the first or a later one, the attempt counter is 0 until a failure is
\* caught, the i-th should_retry call is passed attempt i, the k-th wait is
\* the one of a fresh orchestrator (backoff_base * 2^k at counter k) and fetch
\* is called at most max(1, max_attempts) times; no step of a run changes the
\* orchestrator's strategy, logger, max_attempts or backoff base.
C25_NoStateAcrossRuns ==
    /\ [](/\ (Len(sleeps) = 0 /\ Len(retryLog) = 0
                /\ pc \in {"log_debug", "fetch", "log_info"} => attempts = 0)
          /\ \A i \in DOMAIN retryLog : retryLog[i].attempt = i
          /\ \A k \in DOMAIN sleeps :
                /\ sleeps[k].attempt = k
                /\ sleeps[k].delay = backoff_base * (2 ^ k)
          /\ FetchCalls <= Max(1, max_attempts))
    /\ [][config' = config]_vars

C25_Witness ==
    /\ runs = 2
    /\ Done
    /\ logger = "ok"
    /\ FetchCalls = 2
    /\ fetchLog[1].kind = "scraper"
    /\ Len(sleeps) = 2
    /\ sleeps[1].attempt = 1
    /\ sleeps[2].attempt = 2

\* ------------------------------------------------------------------ C24
\* C24 (deterministic entity_id): of two normalize calls on the same
\* strategy that both returned, made at different times and in either
\* order, the hypertext strategy gives the same entity_id whenever
\* page_title and main_content are the same, and the product strategy
\* whenever product_id is the same, whatever the other fields are.
C24_EntityIdDeterministic ==
    \A i, j \in DOMAIN entityLog :
        LET a == entityLog[i]
            b == entityLog[j]
        IN  (a.strategy = b.strategy /\ ~a.out.raised /\ ~b.out.raised)
                => /\ (/\ a.strategy = "mns"
                       /\ a.extracted.page_title = b.extracted.page_title
                       /\ a.extracted.main_content = b.extracted.main_content)
                          => a.out.entity_id = b.out.entity_id
                   /\ (/\ a.strategy = "product"
                       /\ a.extracted.product_id = b.extracted.product_id)
                          => a.out.entity_id = b.out.entity_id

C24_Witness ==
    /\ Len(entityLog) = 2
    /\ entityLog[1].strategy = "mns"
    /\ entityLog[2].strategy = "mns"
    /\ entityLog[1].extracted.page_title = PyStr("A")
    /\ entityLog[2].extracted.page_title = PyStr("A")
    /\ entityLog[1].extracted.main_content = PyStr("B")
    /\ entityLog[2].extracted.main_content = PyStr("B")
    /\ entityLog[1].extracted.description # entityLog[2].extracted.description
    /\ entityLog[1].out.timestamp # entityLog[2].out.timestamp
    /\ entityLog[1].out.entity_id = entityLog[2].out.entity_id

\* ------------------------------------------------------------------ C27
\* an initialize call has completed before the i-th call on the factory
InitializedBefore(i) ==
    \E j \in 1..(i - 1) :
        factoryLog[j].call = "initialize" /\ factoryLog[j].outcome = "returned"

\* C27: in any sequence of initialize / create / shutdown calls, a create
\* call raises RuntimeError exactly when no initialize call has completed
\* before it; closePool is called at most once on a pool, a shutdown leaves
\* no shared pool, and does not bring back the RuntimeError of create.
C27_FactoryLifecycle ==
    /\ \A i \in DOMAIN factoryLog :
          factoryLog[i].call = "create"
              => (factoryLog[i].outcome = "RuntimeError" <=> ~InitializedBefore(i))
    /\ \A i, j \in DOMAIN closePoolCalls :
          closePoolCalls[i] = closePoolCalls[j] => i = j
    /\ (Len(factoryLog) >= 1 /\ factoryLog[Len(factoryLog)].call = "shutdown")
          => default_pool = NoPool

====
